---- MODULE Spec2Model ----
(***************************************************************************)
(* Model of the YouTube script generator: script_generator.py              *)
(* (VideoScriptGenerator) and the command line front end                   *)
(* generate_script.py (main).                                              *)
(*                                                                         *)
(* Python strings are modelled as sequences of one-character strings, so   *)
(* that substring tests, str.replace, str.split, str.strip and the         *)
(* character filter of save_script are computed as Python computes them.   *)
(* Python's None is the one-element sequence <<"None">>, whose element is  *)
(* not a character, so it differs from every string.                       *)
(***************************************************************************)
EXTENDS Integers, Sequences, FiniteSets, TLC

None == <<"None">>

(***************************************************************************)
(* String primitives                                                       *)
(***************************************************************************)
Lowers == <<"a","b","c","d","e","f","g","h","i","j","k","l","m",
            "n","o","p","q","r","s","t","u","v","w","x","y","z">>
Uppers == <<"A","B","C","D","E","F","G","H","I","J","K","L","M",
            "N","O","P","Q","R","S","T","U","V","W","X","Y","Z">>
Digits == <<"0","1","2","3","4","5","6","7","8","9">>

Range(s) == { s[k] : k \in 1..Len(s) }

\* str.upper() on one character
UpperChar(c) ==
  IF \E k \in 1..26 : Lowers[k] = c
    THEN Uppers[CHOOSE k \in 1..26 : Lowers[k] = c]
    ELSE c

\* str.upper()
Upper(s) == [k \in 1..Len(s) |-> UpperChar(s[k])]

\* str.isalnum() on one character (ASCII letters and digits)
IsAlnum(c) == c \in Range(Lowers) \cup Range(Uppers) \cup Range(Digits)

\* Python's `sub in s`
Contains(s, sub) ==
  \E k \in 0..(Len(s) - Len(sub)) : SubSeq(s, k + 1, k + Len(sub)) = sub

\* s.startswith(p)
StartsWith(s, p) == Len(p) <= Len(s) /\ SubSeq(s, 1, Len(p)) = p

\* str.replace(old, new) for a non-empty old: every non-overlapping
\* occurrence, scanning left to right
RECURSIVE Replace(_, _, _)
Replace(s, old, new) ==
  IF s = <<>> THEN <<>>
  ELSE IF StartsWith(s, old)
    THEN new \o Replace(SubSeq(s, Len(old) + 1, Len(s)), old, new)
    ELSE <<Head(s)>> \o Replace(Tail(s), old, new)

\* str.split(sep) for a one-character sep: always at least one piece
RECURSIVE SplitFrom(_, _, _)
SplitFrom(s, sep, cur) ==
  IF s = <<>> THEN <<cur>>
  ELSE IF Head(s) = sep
    THEN <<cur>> \o SplitFrom(Tail(s), sep, <<>>)
    ELSE SplitFrom(Tail(s), sep, Append(cur, Head(s)))

Split(s, sep) == SplitFrom(s, sep, <<>>)

\* sep.join(pieces)
RECURSIVE Join(_, _)
Join(pieces, sep) ==
  IF pieces = <<>> THEN <<>>
  ELSE IF Len(pieces) = 1 THEN pieces[1]
  ELSE pieces[1] \o sep \o Join(Tail(pieces), sep)

Whitespace == {" ", "\n", "\t"}

\* str.rstrip()
RECURSIVE RStrip(_)
RStrip(s) ==
  IF s # <<>> /\ s[Len(s)] \in Whitespace
    THEN RStrip(SubSeq(s, 1, Len(s) - 1))
    ELSE s

\* str.lstrip()
RECURSIVE LStrip(_)
LStrip(s) ==
  IF s # <<>> /\ Head(s) \in Whitespace THEN LStrip(Tail(s)) ELSE s

\* str.strip()
Strip(s) == LStrip(RStrip(s))

\* str(n) for a natural number
RECURSIVE Str(_)
Str(n) ==
  IF n < 10 THEN <<Digits[n + 1]>>
  ELSE Str(n \div 10) \o <<Digits[(n % 10) + 1]>>

(***************************************************************************)
(* Section extraction (script_generator.py, _extract_section)              *)
(***************************************************************************)
SectionNotFound ==
  <<"S","e","c","t","i","o","n"," ","n","o","t"," ","f","o","u","n","d">>

HOOK == <<"H","O","O","K">>
INTRODUCTION == <<"I","N","T","R","O","D","U","C","T","I","O","N">>
MAIN_CONTENT == <<"M","A","I","N"," ","C","O","N","T","E","N","T">>
CALL_TO_ACTION == <<"C","A","L","L"," ","T","O"," ","A","C","T","I","O","N">>
OUTRO == <<"O","U","T","R","O">>

\* the five section names, in the order _parse_script_response asks for them
SectionNames == <<HOOK, INTRODUCTION, MAIN_CONTENT, CALL_TO_ACTION, OUTRO>>

\* the keyword list of the `elif` that ends a section
Keywords == {HOOK, INTRODUCTION, <<"M","A","I","N">>, <<"C","A","L","L">>, OUTRO}

\* '**' in line or '#' in line
HasMarker(line) == Contains(line, <<"*","*">>) \/ Contains(line, <<"#">>)

\* section_name.upper() in line.upper() and ('**' in line or '#' in line)
IsHeaderOf(line, section_name) ==
  Contains(Upper(line), Upper(section_name)) /\ HasMarker(line)

\* ('**' in line or '#' in line) and any(keyword in line.upper() ...)
IsOtherHeader(line) ==
  HasMarker(line) /\ \E kw \in Keywords : Contains(Upper(line), kw)

\* the for loop over lines: k is the next line, acc is section_lines
RECURSIVE ExtractLoop(_, _, _, _, _)
ExtractLoop(lines, k, section_name, in_section, acc) ==
  IF k > Len(lines) THEN acc
  ELSE IF IsHeaderOf(lines[k], section_name)
    THEN ExtractLoop(lines, k + 1, section_name, TRUE, acc)
  ELSE IF in_section /\ IsOtherHeader(lines[k])
    THEN acc
  ELSE IF in_section
    THEN ExtractLoop(lines, k + 1, section_name, TRUE, Append(acc, lines[k]))
  ELSE ExtractLoop(lines, k + 1, section_name, in_section, acc)

\* _extract_section: text.split raises on a text that is not a string, and
\* the bare except turns that into the sentinel; nothing else in the try
\* block can raise.
ExtractSection(text, section_name) ==
  IF text = None THEN SectionNotFound
  ELSE Strip(Join(ExtractLoop(Split(text, "\n"), 1, section_name, FALSE, <<>>),
                  <<"\n">>))

(***************************************************************************)
(* Bounds                                                                  *)
(***************************************************************************)
\* largest --variations / count value explored
MaxCount == 3
\* the clock runs from tick 0 to MaxClock
MaxClock == 1
\* clock ticks per second: the resolution of datetime.now() relative to the
\* one-second resolution of the "%Y%m%d_%H%M%S" format; two calls may also
\* read the same tick
TicksPerSecond == 1

(***************************************************************************)
(* Construction (script_generator.py, __init__)                            *)
(***************************************************************************)
\* Python truthiness of an optional string
Truthy(x) == x # None /\ x # <<>>

ApiKeyRequiredMsg ==
  <<"O","p","e","n","A","I"," ","A","P","I"," ","k","e","y"," ","i","s"," ",
    "r","e","q","u","i","r","e","d","."," ","S","e","t"," ",
    "O","P","E","N","A","I","_","A","P","I","_","K","E","Y"," ",
    "e","n","v","i","r","o","n","m","e","n","t"," ",
    "v","a","r","i","a","b","l","e"," ","o","r"," ","p","a","s","s"," ",
    "i","t"," ","d","i","r","e","c","t","l","y",".">>

\* self.api_key = api_key or os.getenv('OPENAI_API_KEY')
ResolveApiKey(api_key, env) == IF Truthy(api_key) THEN api_key ELSE env

\* variant: only a missing key is rejected, an empty one is accepted
InitGeneratorNoneOnly(api_key, env) ==
  IF ResolveApiKey(api_key, env) = None
    THEN [ok |-> FALSE, value |-> None,
          exc |-> [type |-> "ValueError", msg |-> ApiKeyRequiredMsg]]
    ELSE [ok |-> TRUE, value |-> [api_key |-> ResolveApiKey(api_key, env)],
          exc |-> None]

\* __init__: the generator, or the ValueError it raises
InitGenerator(api_key, env) ==
  IF ~Truthy(ResolveApiKey(api_key, env))
    THEN [ok |-> FALSE, value |-> None,
          exc |-> [type |-> "ValueError", msg |-> ApiKeyRequiredMsg]]
    ELSE [ok |-> TRUE, value |-> [api_key |-> ResolveApiKey(api_key, env)],
          exc |-> None]

(***************************************************************************)
(* Generation (script_generator.py, generate_script)                       *)
(***************************************************************************)
\* datetime.now().isoformat(): one string per clock tick
IsoFormat(t) == Str(t)

\* datetime.now().strftime("%Y%m%d_%H%M%S"): fixed width, whole seconds
Strftime(t) ==
  <<"2","0","2","4","0","1","0","1","_","0","0","0","0">>
    \o <<Digits[((t \div TicksPerSecond) \div 10) + 1],
         Digits[((t \div TicksPerSecond) % 10) + 1]>>

\* _parse_script_response
ParseScriptResponse(response, topic, t) ==
  [topic |-> topic,
   generated_at |-> IsoFormat(t),
   full_script |-> response,
   hook |-> ExtractSection(response, HOOK),
   introduction |-> ExtractSection(response, INTRODUCTION),
   main_content |-> ExtractSection(response, MAIN_CONTENT),
   call_to_action |-> ExtractSection(response, CALL_TO_ACTION),
   outro |-> ExtractSection(response, OUTRO)]

ErrorGeneratingPrefix ==
  <<"E","r","r","o","r"," ","g","e","n","e","r","a","t","i","n","g"," ",
    "s","c","r","i","p","t",":"," ">>

IndexErrorMsg ==
  <<"l","i","s","t"," ","i","n","d","e","x"," ","o","u","t"," ","o","f"," ",
    "r","a","n","g","e">>

\* str(e) of what the try block of generate_script raises: the remote call
\* itself, or response.choices[0] on a response without choices
UnderlyingMsg(outcome) ==
  IF outcome.kind = "raise" THEN outcome.msg ELSE IndexErrorMsg

\* variant: the generic Exception does not carry str(e)
GenerateScriptDropsCause(topic, outcome, t) ==
  IF outcome.kind = "ok"
    THEN [ok |-> TRUE, value |-> ParseScriptResponse(outcome.content, topic, t),
          exc |-> None]
    ELSE [ok |-> FALSE, value |-> None,
          exc |-> [type |-> "Exception", msg |-> ErrorGeneratingPrefix]]

\* generate_script: the Script Record, or the generic Exception that wraps
\* the failure of the remote call
GenerateScript(topic, outcome, t) ==
  IF outcome.kind = "ok"
    THEN [ok |-> TRUE, value |-> ParseScriptResponse(outcome.content, topic, t),
          exc |-> None]
    ELSE [ok |-> FALSE, value |-> None,
          exc |-> [type |-> "Exception",
                   msg |-> ErrorGeneratingPrefix \o UnderlyingMsg(outcome)]]

(***************************************************************************)
(* Persistence (script_generator.py, save_script)                          *)
(***************************************************************************)
\* "".join(c for c in topic if c.isalnum() or c in (' ', '-', '_'))
RECURSIVE FilterTopic(_)
FilterTopic(topic) ==
  IF topic = <<>> THEN <<>>
  ELSE IF IsAlnum(Head(topic)) \/ Head(topic) \in {" ", "-", "_"}
    THEN <<Head(topic)>> \o FilterTopic(Tail(topic))
    ELSE FilterTopic(Tail(topic))

\* variant: the filtered topic keeps its trailing spaces
SafeTopicNoRStrip(topic) == FilterTopic(topic)

\* safe_topic
SafeTopic(topic) == RStrip(FilterTopic(topic))

\* f"script_{safe_topic.replace(' ', '_')}_{timestamp}.json"
DerivedFilename(topic, t) ==
  <<"s","c","r","i","p","t","_">> \o Replace(SafeTopic(topic), <<" ">>, <<"_">>)
    \o <<"_">> \o Strftime(t) \o <<".","j","s","o","n">>

\* filename.replace('.json', '.txt')
TextFilename(filename) ==
  Replace(filename, <<".","j","s","o","n">>, <<".","t","x","t">>)

\* json.dump(script_data, f, ...): the whole record
JsonDump(script_data) == [kind |-> "json", data |-> script_data]

\* the four f.write calls of the text file: title line, timestamp line,
\* separator line of 50 '=' and a blank line, then the full script
TextDump(script_data) ==
  [kind |-> "text", title |-> script_data.topic,
   generated |-> script_data.generated_at, separator |-> 50,
   body |-> script_data.full_script]

\* save_script: the file system after the two writes, in order, and the
\* returned filename
SaveScript(fs, script_data, filename, t) ==
  LET fname == IF Truthy(filename) THEN filename
               ELSE DerivedFilename(script_data.topic, t)
      afterJson == (fname :> JsonDump(script_data)) @@ fs
      afterText == (TextFilename(fname) :> TextDump(script_data)) @@ afterJson
  IN [files |-> afterText, filename |-> fname,
      text_filename |-> TextFilename(fname)]

(***************************************************************************)
(* Inputs                                                                  *)
(***************************************************************************)
\* topics: "a b" and "c! " (punctuation and a trailing space)
Topics == { <<"a"," ","b">>, <<"c","!"," ">> }

\* --output values: absent, "o.json", "o" (no dot), "a.b.json" (two dots),
\* "o.txt" (a dot, but not the .json extension)
Outputs == { None,
             <<"o",".","j","s","o","n">>,
             <<"o">>,
             <<"a",".","b",".","j","s","o","n">>,
             <<"o",".","t","x","t">> }

\* OPENAI_API_KEY: unset, empty, set
EnvKeys == { None, <<>>, <<"s","k">> }

\* response text of the remote service: "**HOOK**\nhi\n## Outro\nbye"
Responses == { <<"*","*","H","O","O","K","*","*","\n","h","i","\n",
                 "#","#"," ","O","u","t","r","o","\n","b","y","e">> }

\* message of a failed remote call: "Bad API key"
FailMsgs == { <<"B","a","d"," ","A","P","I"," ","k","e","y">> }

\* what one remote call can do: answer, raise, or answer without choices
RemoteOutcomes ==
  { [kind |-> "ok", content |-> r, msg |-> None] : r \in Responses }
    \cup { [kind |-> "raise", content |-> None, msg |-> m] : m \in FailMsgs }
    \cup { [kind |-> "nochoices", content |-> None, msg |-> None] }

(***************************************************************************)
(* State                                                                   *)
(***************************************************************************)
VARIABLES
  pc,            \* position in main / in the library call
  caller,        \* "cli": generate_script.py main; "api": a direct call of
                 \* generate_multiple_variations
  env_key,       \* OPENAI_API_KEY
  args,          \* parsed arguments: topic, variations, output
  now,           \* the clock, in ticks
  generator,     \* the VideoScriptGenerator, None before construction
  i,             \* loop variable of generate_multiple_variations
  variations,    \* its list of records
  attempts,      \* the generate_script calls made, in order
  remote_calls,  \* number of remote calls made
  j,             \* enumerate index of the save loop of main
  script,        \* the record of the single-variation branch
  exc,           \* the exception travelling to main's except clause
  saves,         \* the save_script calls made
  files,         \* the file system: filename -> content
  out,           \* the lines printed
  text,          \* input of the section extraction
  sections       \* the last section extraction: name and returned value

vars == <<pc, caller, env_key, args, now, generator, i, variations, attempts,
          remote_calls, j, script, exc, saves, files, out, text, sections>>

cliVars == <<pc, caller, env_key, args, now, generator, i, variations,
             attempts, remote_calls, j, script, exc, saves, files, out>>

NoFiles == [f \in {} |-> None]

Init ==
  /\ pc = "start"
  /\ caller \in {"cli", "api"}
  /\ env_key \in EnvKeys
  /\ args \in [topic : Topics, variations : 0..MaxCount, output : Outputs]
  /\ caller = "api" => env_key = <<"s","k">> /\ args.output = None
  /\ now = 0
  /\ generator = None
  /\ i = 0
  /\ variations = <<>>
  /\ attempts = <<>>
  /\ remote_calls = 0
  /\ j = 1
  /\ script = None
  /\ exc = None
  /\ saves = <<>>
  /\ files = NoFiles
  /\ out = <<>>
  /\ text = None
  /\ sections = <<>>

(***************************************************************************)
(* generate_script.py, main                                                *)
(***************************************************************************)
\* the clock advances between any two steps
Tick ==
  /\ pc # "done"
  /\ now < MaxClock
  /\ now' = now + 1
  /\ UNCHANGED <<pc, caller, env_key, args, generator, i, variations, attempts,
                 remote_calls, j, script, exc, saves, files, out, text,
                 sections>>

\* generator = VideoScriptGenerator(), the four header prints, and the
\* branch on args.variations
Construct ==
  /\ pc = "start"
  /\ caller = "cli"
  /\ LET g == InitGenerator(None, env_key) IN
       IF g.ok
         THEN /\ generator' = g.value
              /\ exc' = exc
              /\ IF args.variations > 1
                   THEN /\ pc' = "batch"
                        /\ out' = out \o << <<"generating", args.topic>>,
                                            <<"length">>, <<"style">>,
                                            <<"audience">>,
                                            <<"creating", args.variations>> >>
                   ELSE /\ pc' = "single"
                        /\ out' = out \o << <<"generating", args.topic>>,
                                            <<"length">>, <<"style">>,
                                            <<"audience">> >>
         ELSE /\ exc' = g.exc
              /\ pc' = "except"
              /\ UNCHANGED <<generator, out>>
  /\ i' = 0
  /\ variations' = <<>>
  /\ UNCHANGED <<caller, env_key, args, now, attempts, remote_calls, j, script,
                 saves, files, text, sections>>

\* a library client: VideoScriptGenerator(api_key) and then
\* generate_multiple_variations(topic, count)
ApiCall ==
  /\ pc = "start"
  /\ caller = "api"
  /\ generator' = InitGenerator(env_key, None).value
  /\ pc' = "batch"
  /\ i' = 0
  /\ variations' = <<>>
  /\ UNCHANGED <<caller, env_key, args, now, attempts, remote_calls, j, script,
                 exc, saves, files, out, text, sections>>

\* the record of one generate_script call: which call, when, and how the
\* remote service answered
Attempt(n, outcome, t) ==
  [iteration |-> n, ok |-> outcome.kind = "ok", at |-> t,
   cause |-> IF outcome.kind = "ok" THEN None ELSE UnderlyingMsg(outcome)]

\* variant: the tag is the 0-based loop variable
VariationTagZeroBased(n) == n

\* script['variation'] = i + 1
VariationTag(n) == n + 1

\* one iteration of the for loop of generate_multiple_variations
BatchStep(outcome) ==
  /\ pc = "batch"
  /\ i < args.variations
  /\ LET r == GenerateScript(args.topic, outcome, now) IN
       /\ attempts' = Append(attempts, Attempt(i + 1, outcome, now))
       /\ IF r.ok
            THEN /\ variations' =
                      Append(variations,
                             r.value @@ [variation |-> VariationTag(i)])
                 /\ out' = out
            ELSE /\ variations' = variations
                 /\ out' = Append(out, <<"variation_error", i + 1, r.exc.msg>>)
  /\ remote_calls' = remote_calls + 1
  /\ i' = i + 1
  /\ UNCHANGED <<pc, caller, env_key, args, now, generator, j, script, exc,
                 saves, files, text, sections>>

\* variant: the return statement sits inside the loop body, so the batch
\* returns after its first iteration
BatchReturnInsideLoop ==
  /\ pc = "batch"
  /\ i >= 1 \/ i >= args.variations
  /\ pc' = IF caller = "cli" THEN "save_loop" ELSE "done"
  /\ j' = 1
  /\ UNCHANGED <<caller, env_key, args, now, generator, i, variations, attempts,
                 remote_calls, script, exc, saves, files, out, text, sections>>

\* return variations
BatchReturn ==
  /\ pc = "batch"
  /\ i >= args.variations
  /\ pc' = IF caller = "cli" THEN "save_loop" ELSE "done"
  /\ j' = 1
  /\ UNCHANGED <<caller, env_key, args, now, generator, i, variations, attempts,
                 remote_calls, script, exc, saves, files, out, text, sections>>

\* args.output.replace('.', f'_v{i}.') if args.output else None
VariationFilename(output, n) ==
  IF Truthy(output)
    THEN Replace(output, <<".">>, <<"_","v">> \o Str(n) \o <<".">>)
    ELSE None

\* one iteration of `for i, script in enumerate(scripts, 1)`
CliSave ==
  /\ pc = "save_loop"
  /\ j <= Len(variations)
  /\ LET name == VariationFilename(args.output, j)
         r == SaveScript(files, variations[j], name, now)
     IN /\ files' = r.files
        /\ saves' = Append(saves, [index |-> j, record |-> variations[j],
                                   arg |-> name, filename |-> r.filename,
                                   text_filename |-> r.text_filename,
                                   at |-> now])
        /\ out' = Append(out, <<"variation_saved", j, r.filename>>)
  /\ j' = j + 1
  /\ UNCHANGED <<pc, caller, env_key, args, now, generator, i, variations,
                 attempts, remote_calls, script, exc, text, sections>>

\* the save loop is exhausted; main returns
CliFinish ==
  /\ pc = "save_loop"
  /\ j > Len(variations)
  /\ pc' = "done"
  /\ UNCHANGED <<caller, env_key, args, now, generator, i, variations, attempts,
                 remote_calls, j, script, exc, saves, files, out, text,
                 sections>>

\* the else branch: script = generator.generate_script(...)
SingleGenerate(outcome) ==
  /\ pc = "single"
  /\ LET r == GenerateScript(args.topic, outcome, now) IN
       /\ attempts' = Append(attempts, Attempt(1, outcome, now))
       /\ IF r.ok
            THEN /\ script' = r.value
                 /\ pc' = "single_save"
                 /\ exc' = exc
            ELSE /\ script' = script
                 /\ pc' = "except"
                 /\ exc' = r.exc
  /\ remote_calls' = remote_calls + 1
  /\ UNCHANGED <<caller, env_key, args, now, generator, i, variations, j, saves,
                 files, out, text, sections>>

PreviewLen == 400

\* script['full_script'][:400] + "..." if longer than 400, else the script
Preview(full_script) ==
  IF Len(full_script) > PreviewLen
    THEN SubSeq(full_script, 1, PreviewLen) \o <<".",".",".">>
    ELSE full_script

\* filename = generator.save_script(script, args.output) and the prints
\* that follow it
SingleSave ==
  /\ pc = "single_save"
  /\ LET r == SaveScript(files, script, args.output, now) IN
       /\ files' = r.files
       /\ saves' = Append(saves, [index |-> 0, record |-> script,
                                  arg |-> args.output, filename |-> r.filename,
                                  text_filename |-> r.text_filename,
                                  at |-> now])
       /\ out' = out \o << <<"saved", r.filename>>,
                           <<"preview", Preview(script.full_script)>>,
                           <<"full_saved", r.filename>> >>
  /\ pc' = "done"
  /\ UNCHANGED <<caller, env_key, args, now, generator, i, variations, attempts,
                 remote_calls, j, script, exc, text, sections>>

\* except Exception as e: the error line, and the remediation steps when
\* "API key" in str(e)
Except ==
  /\ pc = "except"
  /\ out' = IF Contains(exc.msg, <<"A","P","I"," ","k","e","y">>)
              THEN out \o << <<"error", exc.msg>>, <<"remediation">> >>
              ELSE Append(out, <<"error", exc.msg>>)
  /\ pc' = "done"
  /\ UNCHANGED <<caller, env_key, args, now, generator, i, variations, attempts,
                 remote_calls, j, script, exc, saves, files, text, sections>>

Next ==
  \/ Tick
  \/ Construct
  \/ ApiCall
  \/ \E outcome \in RemoteOutcomes : BatchStep(outcome)
  \/ BatchReturn
  \/ CliSave
  \/ CliFinish
  \/ \E outcome \in RemoteOutcomes : SingleGenerate(outcome)
  \/ SingleSave
  \/ Except

Spec == Init /\ [][Next]_vars

(***************************************************************************)
(* Section extraction applied to bounded response texts                    *)
(***************************************************************************)
\* the header lines of a well-formed response: "**HOOK**",
\* "# Introduction", "**MAIN CONTENT**", "**Call to Action**", "## OUTRO"
Headers ==
  << <<"*","*","H","O","O","K","*","*">>,
     <<"#"," ","I","n","t","r","o","d","u","c","t","i","o","n">>,
     <<"*","*","M","A","I","N"," ","C","O","N","T","E","N","T","*","*">>,
     <<"*","*","C","a","l","l"," ","t","o"," ","A","c","t","i","o","n","*","*">>,
     <<"#","#"," ","O","U","T","R","O">> >>

\* bodies of a section: "hi"; "hi", "", "yo"; "hi", "**main** x" (a body
\* line with a marker and the word main); "hi", "# hook" (a body line with
\* a marker and the word hook)
BodyChoices ==
  { << <<"h","i">> >>,
    << <<"h","i">>, <<>>, <<"y","o">> >>,
    << <<"h","i">>, <<"*","*","m","a","i","n","*","*"," ","x">> >>,
    << <<"h","i">>, <<"#"," ","h","o","o","k">> >> }

\* responses with the five headers in order, each followed by a body
MarkedTexts ==
  { Join(<<Headers[1]>> \o b[1] \o <<Headers[2]>> \o b[2] \o <<Headers[3]>>
           \o b[3] \o <<Headers[4]>> \o b[4] \o <<Headers[5]>> \o b[5],
         <<"\n">>) : b \in [1..5 -> BodyChoices] }

\* lines without '**' and without '#': "HOOK", "hi", ""
PlainLines == { <<"H","O","O","K">>, <<"h","i">>, <<>> }

\* responses of at most two lines, none with a marker (the empty response
\* among them)
PlainTexts ==
  {<<>>} \cup PlainLines
    \cup { Join(<<a, b>>, <<"\n">>) : a \in PlainLines, b \in PlainLines }

InitExtract ==
  /\ pc = "extract"
  /\ caller = "api"
  /\ env_key = None
  /\ args = [topic |-> <<>>, variations |-> 0, output |-> None]
  /\ now = 0
  /\ generator = None
  /\ i = 0
  /\ variations = <<>>
  /\ attempts = <<>>
  /\ remote_calls = 0
  /\ j = 1
  /\ script = None
  /\ exc = None
  /\ saves = <<>>
  /\ files = NoFiles
  /\ out = <<>>
  /\ text \in MarkedTexts \cup PlainTexts \cup {None}
  /\ sections = <<>>

\* self._extract_section(response, section_name)
Extract(section_name) ==
  /\ pc = "extract"
  /\ sections' = << [name |-> section_name,
                     value |-> ExtractSection(text, section_name)] >>
  /\ UNCHANGED <<cliVars, text>>

NextExtract == \E n \in 1..5 : Extract(SectionNames[n])

SpecExtract == InitExtract /\ [][NextExtract]_vars

(***************************************************************************)
(* C6, C7: section extraction                                              *)
(***************************************************************************)
NoMarkerAnywhere(t) ==
  \A k \in 1..Len(Split(t, "\n")) : ~HasMarker(Split(t, "\n")[k])

\* C6: for a response text in which no line contains '**' or '#',
\* _extract_section returns the sentinel "Section not found" for each of the
\* five section names.
C6_SentinelWithoutMarkers ==
  (sections # <<>> /\ text # None /\ NoMarkerAnywhere(text))
    => sections[1].value = SectionNotFound

\* position of the k-th header among the lines of a well-formed response
HeaderPos(lines, k) == CHOOSE p \in 1..Len(lines) : lines[p] = Headers[k]

\* the lines between the k-th header and the next header (or the end)
BodyBetween(lines, k) ==
  SubSeq(lines, HeaderPos(lines, k) + 1,
         IF k = 5 THEN Len(lines) ELSE HeaderPos(lines, k + 1) - 1)

SectionIndex(name) == CHOOSE k \in 1..5 : SectionNames[k] = name

\* C7: for a response with the five marked headers in order, each followed
\* by a body, _extract_section returns exactly the lines between the
\* section's header and the next section's header, and that is not empty;
\* body lines that carry a marker and a word such as main or hook neither
\* end the section early nor get dropped.
C7_ExactSectionBounds ==
  (sections # <<>> /\ text \in MarkedTexts)
    => /\ sections[1].value =
            Join(BodyBetween(Split(text, "\n"), SectionIndex(sections[1].name)),
                 <<"\n">>)
       /\ sections[1].value # <<>>

(***************************************************************************)
(* C1: batch generation                                                    *)
(***************************************************************************)
\* the run goes through generate_multiple_variations
InBatchRun == caller = "api" \/ args.variations > 1

\* generate_multiple_variations has returned
BatchReturned ==
  /\ InBatchRun
  /\ \/ pc = "save_loop"
     \/ pc = "done" /\ (caller = "api" \/ Truthy(env_key))

OkIterations == { k \in 1..Len(attempts) : attempts[k].ok }

\* C1: generate_multiple_variations(topic, N) attempts the N iterations in
\* order and never raises; it returns as many records as calls succeeded;
\* each record is tagged with the 1-based iteration that produced it, and
\* the records are in increasing iteration order.
C1_BatchIsolatesFailures ==
  InBatchRun =>
    /\ pc = "except" => remote_calls = 0
    /\ Len(attempts) = i /\ remote_calls = i
    /\ \A k \in 1..Len(attempts) : attempts[k].iteration = k
    /\ BatchReturned => Len(attempts) = args.variations
    /\ Len(variations) = Cardinality(OkIterations)
    /\ \A m \in 1..Len(variations) :
         /\ variations[m].variation \in OkIterations
         /\ variations[m].generated_at
              = IsoFormat(attempts[variations[m].variation].at)
    /\ \A m \in 1..Len(variations) : \A n \in 1..Len(variations) :
         m < n => variations[m].variation < variations[n].variation

\* three iterations, the second failed: two records, tagged 1 and 3
C1_Witness ==
  /\ BatchReturned
  /\ args.variations = 3
  /\ ~attempts[2].ok
  /\ Len(variations) = 2
  /\ variations[2].variation = 3

(***************************************************************************)
(* C2, C3: filenames of a multi-variation run                              *)
(***************************************************************************)
MultiRun == caller = "cli" /\ args.variations > 1

\* C2: in a multi-variation run, any two saved variations have different
\* structured-data filenames and different plain-text filenames, with and
\* without --output.
C2_DistinctFilesPerVariation ==
  MultiRun =>
    \A a \in 1..Len(saves) : \A b \in 1..Len(saves) :
      a # b => /\ saves[a].filename # saves[b].filename
               /\ saves[a].text_filename # saves[b].text_filename

\* base with marker inserted after the first p characters
InsertAt(base, marker, p) ==
  SubSeq(base, 1, p) \o marker \o SubSeq(base, p + 1, Len(base))

LastDot(base) ==
  CHOOSE p \in 1..Len(base) :
    base[p] = "." /\ \A q \in (p + 1)..Len(base) : base[q] # "."

\* C3: with a user-supplied base name, the filename of variation N is the
\* base name with _v<N> inserted exactly once, immediately before the last
\* dot-suffix when there is one, every other character unchanged.
C3_MarkerBeforeExtension ==
  MultiRun =>
    \A a \in 1..Len(saves) :
      Truthy(args.output) =>
        IF Contains(args.output, <<".">>)
          THEN saves[a].filename =
                 InsertAt(args.output, <<"_","v">> \o Str(saves[a].index),
                          LastDot(args.output) - 1)
          ELSE \E p \in 0..Len(args.output) :
                 saves[a].filename =
                   InsertAt(args.output, <<"_","v">> \o Str(saves[a].index), p)

(***************************************************************************)
(* C4, C5: save_script                                                     *)
(***************************************************************************)
LastSave == saves[Len(saves)]

\* C4: after save_script returns there are two distinct files: the returned
\* name holds the serialized record, and the text file holds the header and
\* the full script.
C4_TwoDistinctFiles ==
  saves # <<>> =>
    /\ LastSave.filename # LastSave.text_filename
    /\ LastSave.filename \in DOMAIN files
    /\ LastSave.text_filename \in DOMAIN files
    /\ files[LastSave.filename].kind = "json"
    /\ files[LastSave.filename].data = LastSave.record
    /\ files[LastSave.text_filename].kind = "text"
    /\ files[LastSave.text_filename].body = LastSave.record.full_script

Derived(s) == ~Truthy(s.arg)

\* the characters of the topic that the filter keeps
Kept(topic) == SelectSeq(topic, LAMBDA c : IsAlnum(c) \/ c \in {" ", "-", "_"})

Underscored(str, n) ==
  [k \in 1..n |-> IF str[k] = " " THEN "_" ELSE str[k]]

\* length of str without its trailing spaces
TrimmedLen(str) ==
  IF \E k \in 1..Len(str) : str[k] # " "
    THEN CHOOSE k \in 1..Len(str) :
           str[k] # " " /\ \A q \in (k + 1)..Len(str) : str[q] = " "
    ELSE 0

DistinctAtDistinctTimestamps ==
  \A a \in 1..Len(saves) : \A b \in 1..Len(saves) :
    (/\ Derived(saves[a]) /\ Derived(saves[b])
     /\ saves[a].record.topic = saves[b].record.topic
     /\ Strftime(saves[a].at) # Strftime(saves[b].at))
      => saves[a].filename # saves[b].filename

\* C5 as stated: the derived name is script_ + (filtered topic with spaces
\* replaced by underscores) + _ + timestamp + .json, and saves of one topic
\* at different timestamps derive different names.
C5_DerivedNameAsStated ==
  /\ \A a \in 1..Len(saves) :
       Derived(saves[a]) =>
         saves[a].filename =
           <<"s","c","r","i","p","t","_">>
             \o Underscored(Kept(saves[a].record.topic),
                            Len(Kept(saves[a].record.topic)))
             \o <<"_">> \o Strftime(saves[a].at) \o <<".","j","s","o","n">>
  /\ DistinctAtDistinctTimestamps

\* C5 amended: the trailing spaces of the filtered topic are removed before
\* the remaining spaces are replaced by underscores.
C5_DerivedName ==
  /\ \A a \in 1..Len(saves) :
       Derived(saves[a]) =>
         saves[a].filename =
           <<"s","c","r","i","p","t","_">>
             \o Underscored(Kept(saves[a].record.topic),
                            TrimmedLen(Kept(saves[a].record.topic)))
             \o <<"_">> \o Strftime(saves[a].at) \o <<".","j","s","o","n">>
  /\ DistinctAtDistinctTimestamps

\* two derived names for the topic "c! ", one second apart
C5_Witness ==
  /\ Len(saves) >= 2
  /\ Derived(saves[1]) /\ Derived(saves[2])
  /\ saves[1].record.topic = <<"c","!"," ">>
  /\ Strftime(saves[1].at) # Strftime(saves[2].at)

(***************************************************************************)
(* C8, C9: errors                                                          *)
(***************************************************************************)
ApiKeyText == <<"A","P","I"," ","k","e","y">>

NoCredential == caller = "cli" /\ ~Truthy(env_key)

\* C8: without a credential the constructor raises an error whose message
\* contains "API key" before any remote call or file write; main prints the
\* error and then the remediation steps, and returns without generating or
\* saving anything.
C8_MissingCredential ==
  NoCredential =>
    /\ pc \in {"start", "except", "done"}
    /\ remote_calls = 0 /\ attempts = <<>>
    /\ saves = <<>> /\ files = NoFiles
    /\ pc = "start" => out = <<>>
    /\ pc = "except" =>
         /\ exc.type = "ValueError"
         /\ Contains(exc.msg, ApiKeyText)
         /\ out = <<>>
    /\ pc = "done" =>
         out = << <<"error", ApiKeyRequiredMsg>>, <<"remediation">> >>

\* main has returned after the constructor failed on an empty OPENAI_API_KEY
C8_Witness == NoCredential /\ env_key = <<>> /\ pc = "done" /\ Len(out) = 2

\* a single-variation run whose generate_script call failed
SingleFailed ==
  /\ caller = "cli" /\ args.variations <= 1
  /\ Len(attempts) = 1 /\ ~attempts[1].ok

HeaderLines ==
  << <<"generating", args.topic>>, <<"length">>, <<"style">>, <<"audience">> >>

NothingSavedOrPreviewed ==
  /\ saves = <<>> /\ files = NoFiles
  /\ \A k \in 1..Len(out) :
       out[k][1] \notin {"saved", "preview", "full_saved", "variation_saved"}

RaisesGenericError ==
  pc = "except" =>
    /\ exc.type = "Exception"
    /\ Contains(exc.msg, attempts[1].cause)

\* C9 as stated: when the remote call fails, generate_script raises a
\* generic error carrying the underlying message; in a single-variation run
\* nothing is saved, no preview is printed, and the error message is the
\* only thing printed after the header.
C9_OnlyErrorPrinted ==
  SingleFailed =>
    /\ pc \in {"except", "done"}
    /\ RaisesGenericError
    /\ NothingSavedOrPreviewed
    /\ pc = "done" => out = Append(HeaderLines, <<"error", exc.msg>>)

\* C9 amended: after the error message the remediation steps are printed
\* too, exactly when the message contains "API key".
C9_GenerationFailure ==
  SingleFailed =>
    /\ pc \in {"except", "done"}
    /\ RaisesGenericError
    /\ NothingSavedOrPreviewed
    /\ pc = "done" =>
         /\ Contains(exc.msg, attempts[1].cause)
         /\ out = IF Contains(attempts[1].cause, ApiKeyText)
                    THEN HeaderLines
                           \o << <<"error", exc.msg>>, <<"remediation">> >>
                    ELSE Append(HeaderLines, <<"error", exc.msg>>)

\* main has returned after a response without choices
C9_Witness ==
  /\ SingleFailed /\ pc = "done"
  /\ attempts[1].cause = IndexErrorMsg
  /\ Len(out) = 5

(***************************************************************************)
(* C10: save index and variation tag                                       *)
(***************************************************************************)
\* C10: in a multi-variation run all N attempts are made before the first
\* save; the number used in the _v marker and in the saved message is the
\* position of the record in the returned list, at most its variation tag,
\* and equal to it exactly when no earlier attempt failed.
C10_IndexIsPosition ==
  MultiRun =>
    /\ saves # <<>> => Len(attempts) = args.variations
    /\ \A a \in 1..Len(saves) :
         /\ saves[a].index = a
         /\ saves[a].record = variations[a]
         /\ saves[a].index <= saves[a].record.variation
         /\ saves[a].index = saves[a].record.variation
              <=> \A k \in 1..(saves[a].record.variation - 1) : attempts[k].ok
         /\ \A k \in 1..Len(attempts) :
              (~attempts[k].ok /\ k <= a) => saves[a].record.variation > k
         /\ (Truthy(args.output) /\ Contains(args.output, <<".">>))
              => Contains(saves[a].filename,
                          <<"_","v">> \o Str(saves[a].index) \o <<".">>)
         /\ \E k \in 1..Len(out) :
              out[k] = <<"variation_saved", saves[a].index, saves[a].filename>>

\* the first attempt failed: the file marked _v1 holds the record tagged 2
C10_Witness ==
  /\ MultiRun
  /\ args.output = <<"o",".","j","s","o","n">>
  /\ Len(saves) >= 1
  /\ ~attempts[1].ok
  /\ saves[1].record.variation = 2
  /\ saves[1].filename = <<"o","_","v","1",".","j","s","o","n">>
  /\ files[saves[1].filename].data.variation = 2

====
